---- MODULE Spec2Model ----
(***************************************************************************)
(* Model of the content-to-page pipeline of gatsby-node.js: the slugify    *)
(* and mdxpassthrough field extensions, sourceNodes, onCreateNode and      *)
(* createPages, run against a model of the framework's node store.         *)
(*                                                                         *)
(* A JavaScript string is a sequence of one-character strings; node ids,   *)
(* type names and template paths, which the code never looks into, are     *)
(* plain strings.                                                          *)
(*                                                                         *)
(* The last sections model index.js of the Verify-PR-labels action, as     *)
(* listed in the note on building a GitHub Action.                         *)
(***************************************************************************)
EXTENDS Integers, Sequences, FiniteSets, TLC

VARIABLES
  nodes,    \* the framework's node store: the set of node objects, one per id
  pc,       \* position of createPages: "idle", "awaitGraphql" or "done"
  handler,  \* the hook or resolver invocation that ran last, with its input
  calls,    \* the framework API calls of that invocation, in call order
  result,   \* createPages: what the awaited graphql() call resolved to
  ret       \* the value the last resolver invocation returned

vars == <<nodes, pc, handler, calls, result, ret>>

----------------------------------------------------------------------------
(* Bounds *)

MaxDocs == 2        \* MDX documents (File node + Mdx node) in the content folders
MaxSlugLen == 3     \* length of a slug handed to the slugify resolver
MaxTitleLen == 3    \* length of a title handed to the slugify resolver
MaxPruneLength == 2 \* values of the pruneLength argument of excerpt
MaxLabels == 2      \* labels on the pull request
MaxReviews == 2     \* reviews on the pull request

----------------------------------------------------------------------------
(* JavaScript values *)

\* undefined, where a string or an array is expected (no character is "undefined")
Undefined == <<"undefined">>
\* null, where a node id or a node is expected
Null == "null"

\* ToBoolean of a value that is a string or undefined
Truthy(v) == v # Undefined /\ v # <<>>

SlugChars == {"/", "a"}
TitleChars == {"a", "A", " ", "/"}

RECURSIVE StringsOfLen(_, _)
StringsOfLen(chars, n) ==
  IF n = 0 THEN {<<>>}
  ELSE {<<c>> \o s : c \in chars, s \in StringsOfLen(chars, n - 1)}

StringsUpTo(chars, n) == UNION {StringsOfLen(chars, k) : k \in 0..n}

Str_stories == <<"s", "t", "o", "r", "i", "e", "s">>

----------------------------------------------------------------------------
(* lodash.kebabcase, for strings of ASCII letters, spaces and punctuation:  *)
(* a word is a run of letters, split where a lower-case letter is followed  *)
(* by an upper-case one and before the last upper-case letter of a run that *)
(* a lower-case letter follows.                                             *)

IsLower(c) == c \in {"a", "s", "t", "o", "r", "i", "e", "b", "d"}
IsUpper(c) == c \in {"A"}
IsLetter(c) == IsLower(c) \/ IsUpper(c)

toLower(c) == IF c = "A" THEN "a" ELSE c

\* does a new word start at position i of s (i > 1, s[i] a letter)?
WordBreak(s, i) ==
  \/ ~IsLetter(s[i - 1])
  \/ IsLower(s[i - 1]) /\ IsUpper(s[i])
  \/ IsUpper(s[i - 1]) /\ IsUpper(s[i]) /\ i < Len(s) /\ IsLower(s[i + 1])

\* end of the word of s that starts at position i
RECURSIVE WordEnd(_, _)
WordEnd(s, i) ==
  IF i = Len(s) THEN i
  ELSE IF ~IsLetter(s[i + 1]) \/ WordBreak(s, i + 1) THEN i
  ELSE WordEnd(s, i + 1)

\* words(string): the words of s, from position i on
RECURSIVE words(_, _)
words(s, i) ==
  IF i > Len(s) THEN <<>>
  ELSE IF ~IsLetter(s[i]) THEN words(s, i + 1)
  ELSE <<SubSeq(s, i, WordEnd(s, i))>> \o words(s, WordEnd(s, i) + 1)

RECURSIVE JoinLower(_)
JoinLower(ws) ==
  IF ws = <<>> THEN <<>>
  ELSE LET w == [k \in 1..Len(ws[1]) |-> toLower(ws[1][k])]
       IN IF Len(ws) = 1 THEN w ELSE w \o <<"-">> \o JoinLower(Tail(ws))

\* kebabCase(string): undefined converts to '', the words are lower-cased
\* and joined with '-'
kebabCase(string) ==
  IF string = Undefined THEN <<>> ELSE JoinLower(words(string, 1))

----------------------------------------------------------------------------
(* String.prototype.replace(/\/\/+/g, `/`) and split('/').filter(Boolean) *)

\* variant of CollapseSlashes: the pattern /\/\//g, which replaces pairs
RECURSIVE CollapseSlashes_pairs(_)
CollapseSlashes_pairs(s) ==
  IF Len(s) < 2 THEN s
  ELSE IF s[1] = "/" /\ s[2] = "/"
       THEN <<"/">> \o CollapseSlashes_pairs(SubSeq(s, 3, Len(s)))
       ELSE <<s[1]>> \o CollapseSlashes_pairs(Tail(s))

RECURSIVE CollapseSlashes(_)
CollapseSlashes(s) ==
  IF Len(s) < 2 THEN s
  ELSE IF s[1] = "/" /\ s[2] = "/" THEN CollapseSlashes(Tail(s))
  ELSE <<s[1]>> \o CollapseSlashes(Tail(s))

\* s.split('/'): the pieces between the '/' characters, empty ones included
RECURSIVE SplitSlash(_)
SplitSlash(s) ==
  IF \A i \in 1..Len(s) : s[i] # "/" THEN <<s>>
  ELSE LET i == CHOOSE j \in 1..Len(s) :
                  s[j] = "/" /\ \A k \in 1..(j - 1) : s[k] # "/"
       IN <<SubSeq(s, 1, i - 1)>> \o SplitSlash(SubSeq(s, i + 1, Len(s)))

\* array.filter(Boolean) on an array of strings
FilterBoolean(a) == SelectSeq(a, LAMBDA x : x # <<>>)

----------------------------------------------------------------------------
(* createSchemaCustomization: the slugify field extension *)

\* variant of slugify: the replace left out
slugify_noCollapse(source) ==
  LET slug == IF Truthy(source.slug) THEN source.slug
              ELSE kebabCase(source.title)
  IN <<"/">> \o slug

\* variant of slugify: the title is preferred to the slug
slugify_titleFirst(source) ==
  LET slug == IF source.title # Undefined THEN kebabCase(source.title)
              ELSE source.slug
  IN CollapseSlashes(<<"/">> \o slug)

slugify(source) ==
  LET slug == IF Truthy(source.slug) THEN source.slug
              ELSE kebabCase(source.title)
  IN CollapseSlashes(<<"/">> \o slug)

----------------------------------------------------------------------------
(* The framework's node store and node actions *)

Range(f) == {f[x] : x \in DOMAIN f}

\* what getNode returns for an id that is not in the store
UndefinedNode == [id |-> "undefined"]

getNode(store, id) == IF id \in DOMAIN store THEN store[id] ELSE UndefinedNode

\* actions.createNode: the node is stored under its id, replacing a node that
\* has the same id
createNode(store, node) ==
  [i \in DOMAIN store \cup {node.id} |-> IF i = node.id THEN node ELSE store[i]]

\* actions.createParentChildLink: the child's id is added to the children of
\* the parent unless it is there already, and the parent is stored
createParentChildLink(store, parent, child) ==
  createNode(store,
    [parent EXCEPT !.children =
       IF \E i \in 1..Len(@) : @[i] = child.id THEN @ ELSE Append(@, child.id)])

\* createNodeId, createContentDigest and JSON.stringify: injective functions
\* of their argument
createNodeId(seed) == "uuid(" \o seed \o ")"
createContentDigest(data) == <<"digest", data>>
JSONstringify(data) == <<"json", data>>

----------------------------------------------------------------------------
(* The content the source plugins read: File nodes and their Mdx children *)

FileId(k) == "File-" \o ToString(k)
MdxId(k) == "Mdx-" \o ToString(k)

SourceInstanceNames == {"stories", "notes"}

FileNode(k, name) ==
  [id |-> FileId(k), parent |-> Null, children |-> <<>>,
   internal |-> [type |-> "File"], sourceInstanceName |-> name]

MdxNode(k, fm) ==
  [id |-> MdxId(k), parent |-> FileId(k), children |-> <<>>,
   internal |-> [type |-> "Mdx"], frontmatter |-> fm]

\* the frontmatter of the MDX documents
FrontmatterInputs ==
  { [slug |-> Undefined, title |-> <<"a", " ", "A">>, releaseDate |-> 1,
     banner |-> <<"b">>, description |-> <<"d">>],
    [slug |-> <<>>, title |-> <<"a">>, releaseDate |-> 2,
     banner |-> Undefined, description |-> <<"d">>],
    [slug |-> <<"a">>, title |-> <<"A", "/", "a">>, releaseDate |-> 1,
     banner |-> <<"b">>, description |-> Undefined],
    [slug |-> <<"/", "a", "/", "/", "a">>, title |-> <<"a">>, releaseDate |-> 2,
     banner |-> <<"b">>, description |-> <<"d">>],
    [slug |-> Str_stories, title |-> <<"a">>, releaseDate |-> 2,
     banner |-> Undefined, description |-> Undefined],
    [slug |-> <<"/">>, title |-> Undefined, releaseDate |-> 1,
     banner |-> <<"b">>, description |-> <<"d">>] }

\* the nodes the framework can call onCreateNode for: the next File node, the
\* Mdx node of a File node (a new document, or an edited one, whose Mdx node
\* is made anew under the same id), and every node of the store (the nodes
\* the hooks created, and the nodes of a repeated build)
NodeEvents(store) ==
  {FileNode(k, name) : k \in {j \in 1..MaxDocs : FileId(j) \notin DOMAIN store
                                /\ \A i \in 1..(j - 1) : FileId(i) \in DOMAIN store},
                       name \in SourceInstanceNames}
  \cup {MdxNode(k, fm) : k \in {j \in 1..MaxDocs : FileId(j) \in DOMAIN store},
                         fm \in FrontmatterInputs}
  \cup Range(store)

----------------------------------------------------------------------------
(* exports.sourceNodes *)

minimalBlogConfig ==
  [storiesPath |-> <<"/">> \o Str_stories, externalLinks |-> <<>>,
   navigation |-> <<>>]

ConfigNode ==
  [storiesPath |-> minimalBlogConfig.storiesPath,
   externalLinks |-> minimalBlogConfig.externalLinks,
   navigation |-> minimalBlogConfig.navigation,
   id |-> "site >>> config", parent |-> Null, children |-> <<>>,
   internal |-> [type |-> "MinimalBlogConfig",
                 contentDigest |-> createContentDigest(minimalBlogConfig),
                 content |-> JSONstringify(minimalBlogConfig)]]

\* variant of sourceNodes: an id that differs from run to run
sourceNodes_freshId(store) ==
  LET node == [ConfigNode EXCEPT
                 !.id = "site >>> config-" \o ToString(Cardinality(DOMAIN store))]
  IN [nodes |-> createNode(store, node),
      calls |-> <<[api |-> "createNode", node |-> node]>>]

sourceNodes(store) ==
  [nodes |-> createNode(store, ConfigNode),
   calls |-> <<[api |-> "createNode", node |-> ConfigNode]>>]

----------------------------------------------------------------------------
(* exports.onCreateNode *)

\* variant of fieldData: banner and description exchanged
fieldData_swapped(node) ==
  [slug |-> IF Truthy(node.frontmatter.slug)
            THEN node.frontmatter.slug ELSE Undefined,
   title |-> node.frontmatter.title,
   releaseDate |-> node.frontmatter.releaseDate,
   banner |-> node.frontmatter.description,
   description |-> node.frontmatter.banner]

\* const fieldData = { slug, title, releaseDate, banner, description }
fieldData(node) ==
  [slug |-> IF Truthy(node.frontmatter.slug)
            THEN node.frontmatter.slug ELSE Undefined,
   title |-> node.frontmatter.title,
   releaseDate |-> node.frontmatter.releaseDate,
   banner |-> node.frontmatter.banner,
   description |-> node.frontmatter.description]

\* variant of storyPageId: the release date takes part in the id
storyPageId_byDate(node) ==
  createNodeId(node.id \o " >>> MdxStoryPage-"
                 \o ToString(node.frontmatter.releaseDate))

\* const mdxStoryPageId = createNodeId(`${node.id} >>> MdxStoryPage`)
storyPageId(node) == createNodeId(node.id \o " >>> MdxStoryPage")

\* the body of "if (source === 'stories')": createNode of the MdxStoryPage
\* node, then createParentChildLink with the node read back from the store
createStoryPage(store, node) ==
  LET data == fieldData(node)
      mdxStoryPageId == storyPageId(node)
      newNode ==
        [slug |-> data.slug, title |-> data.title,
         releaseDate |-> data.releaseDate, banner |-> data.banner,
         description |-> data.description,
         id |-> mdxStoryPageId, parent |-> node.id, children |-> <<>>,
         internal |->
           [type |-> "MdxStoryPage",
            contentDigest |-> createContentDigest(data),
            content |-> JSONstringify(data),
            description |-> "Mdx implementation of the StoryPage interface"]]
      s1 == createNode(store, newNode)
      child == getNode(s1, mdxStoryPageId)
      s2 == createParentChildLink(s1, node, child)
  IN [nodes |-> s2,
      calls |-> << [api |-> "createNode", node |-> newNode],
                   [api |-> "getNode", id |-> mdxStoryPageId],
                   [api |-> "createParentChildLink", parent |-> node,
                    child |-> child] >>]

\* variant of onCreateNode: the test of the source instance name left out
onCreateNode_anySource(store, node) ==
  IF node.internal.type # "Mdx" THEN [nodes |-> store, calls |-> <<>>]
  ELSE
    LET fileNode == getNode(store, node.parent)
        source == fileNode.sourceInstanceName
        c1 == <<[api |-> "getNode", id |-> node.parent]>>
        r == createStoryPage(store, node)
    IN [nodes |-> r.nodes, calls |-> c1 \o r.calls]

onCreateNode(store, node) ==
  IF node.internal.type # "Mdx" THEN [nodes |-> store, calls |-> <<>>]
  ELSE
    LET fileNode == getNode(store, node.parent)
        source == fileNode.sourceInstanceName
        c1 == <<[api |-> "getNode", id |-> node.parent]>>
    IN IF source = "stories"
       THEN LET r == createStoryPage(store, node)
            IN [nodes |-> r.nodes, calls |-> c1 \o r.calls]
       ELSE [nodes |-> store, calls |-> c1]

----------------------------------------------------------------------------
(* mdxResolverPassthrough and the resolvers of the Mdx type *)

PassthroughFields == {"excerpt", "body", "timeToRead"}

\* the arguments of a field: excerpt takes pruneLength, body and timeToRead
\* take none
FieldArgs(fieldName) ==
  IF fieldName = "excerpt"
  THEN {{<<"pruneLength", p>>} : p \in 1..MaxPruneLength}
  ELSE {{}}

\* type.getFields()[fieldName].resolve of the Mdx type: a value that depends
\* on the field, on the node it is applied to and on the arguments
MdxResolve(fieldName, mdxNode, args) ==
  [type |-> "Mdx", field |-> fieldName, of |-> mdxNode.id, args |-> args]

\* variant of mdxResolverPassthrough: the node is looked up by source.id
mdxResolverPassthrough_self(fieldName, store, source, args) ==
  LET mdxNode == getNode(store, source.id)
      value == MdxResolve(fieldName, mdxNode, args)
  IN [calls |-> << [api |-> "getType", name |-> "Mdx"],
                   [api |-> "getNodeById", id |-> source.id],
                   [api |-> "resolve", fieldName |-> fieldName,
                    node |-> mdxNode, args |-> args,
                    info |-> [fieldName |-> fieldName]] >>,
      ret |-> value]

mdxResolverPassthrough(fieldName, store, source, args) ==
  LET mdxNode == getNode(store, source.parent)
      value == MdxResolve(fieldName, mdxNode, args)
  IN [calls |-> << [api |-> "getType", name |-> "Mdx"],
                   [api |-> "getNodeById", id |-> source.parent],
                   [api |-> "resolve", fieldName |-> fieldName,
                    node |-> mdxNode, args |-> args,
                    info |-> [fieldName |-> fieldName]] >>,
      ret |-> value]

----------------------------------------------------------------------------
(* exports.createPages *)

storiesPageTemplate == "./src/templates/stories-page-query.js"
storyPageTemplate == "./src/templates/story-page-query.js"

FormatString == "DD.MM.YYYY"

StoryNodes(store) == {n \in Range(store) : n.internal.type = "MdxStoryPage"}

\* allStoryPage(sort: { fields: releaseDate, order: DESC }): the orders in
\* which the query can return the nodes of a set (nodes with the same
\* release date come in either order)
SortedDesc(S) ==
  {seq \in [1..Cardinality(S) -> S] :
     /\ \A i, j \in 1..Cardinality(S) : i # j => seq[i] # seq[j]
     /\ \A i, j \in 1..Cardinality(S) :
          i < j => seq[i].releaseDate >= seq[j].releaseDate}

\* the selection { nodes { slug } }: the slug field resolves through slugify
SelectSlug(seq) == [i \in 1..Len(seq) |-> [slug |-> slugify(seq[i])]]

\* what graphql() can resolve to: the data, or errors next to the (partial)
\* data; errors is undefined when there are none
GraphqlResults(store) ==
  {[errors |-> e, data |-> [allStoryPage |-> [nodes |-> SelectSlug(seq)]]] :
     e \in {Undefined, <<"GraphQLError">>}, seq \in SortedDesc(StoryNodes(store))}

NoResult == [errors |-> Undefined, data |-> [allStoryPage |-> [nodes |-> <<>>]]]

IndexPage ==
  [api |-> "createPage", path |-> <<"/">> \o Str_stories,
   component |-> storiesPageTemplate,
   context |-> [breadcrumbs |-> <<Str_stories>>, formatString |-> FormatString]]

\* variant of StoryPage: filter(Boolean) left out
StoryPage_noFilter(page) ==
  LET breadcrumbs == SplitSlash(page.slug)
  IN [api |-> "createPage", path |-> CollapseSlashes(page.slug),
      component |-> storyPageTemplate,
      context |-> [breadcrumbs |-> breadcrumbs, slug |-> page.slug,
                   formatString |-> FormatString]]

StoryPage(page) ==
  LET breadcrumbs == FilterBoolean(SplitSlash(page.slug))
  IN [api |-> "createPage", path |-> CollapseSlashes(page.slug),
      component |-> storyPageTemplate,
      context |-> [breadcrumbs |-> breadcrumbs, slug |-> page.slug,
                   formatString |-> FormatString]]

\* variants of ForEachPage: the last node left out; the nodes in reverse order
ForEachPage_skipLast(pages) ==
  [i \in 1..(Len(pages) - 1) |-> StoryPage(pages[i])]

ForEachPage_reversed(pages) ==
  [i \in 1..Len(pages) |-> StoryPage(pages[Len(pages) + 1 - i])]

\* nodes.forEach((page) => createPage(...))
ForEachPage(pages) == [i \in 1..Len(pages) |-> StoryPage(pages[i])]

\* variant of createPagesBegin: the query issued before the index page
createPagesBegin_queryFirst ==
  << [api |-> "graphql", query |-> "allStoryPage"], IndexPage >>

\* createPages up to the await of graphql()
createPagesBegin ==
  << IndexPage, [api |-> "graphql", query |-> "allStoryPage"] >>

\* variant of createPagesResume: no return after panicOnBuild
createPagesResume_noReturn(res) ==
  IF res.errors # Undefined
  THEN << [api |-> "panicOnBuild",
           message |-> "There was an error loading your pages",
           errors |-> res.errors] >>
       \o ForEachPage(res.data.allStoryPage.nodes)
  ELSE ForEachPage(res.data.allStoryPage.nodes)

\* createPages from the point where graphql() resolved to res
createPagesResume(res) ==
  IF res.errors # Undefined
  THEN << [api |-> "panicOnBuild",
           message |-> "There was an error loading your pages",
           errors |-> res.errors] >>
  ELSE ForEachPage(res.data.allStoryPage.nodes)

----------------------------------------------------------------------------
(* The build: hooks and resolvers as the framework runs them *)

NoRet == <<>>

Init ==
  /\ nodes = <<>>
  /\ pc = "idle"
  /\ handler = [name |-> "none"]
  /\ calls = <<>>
  /\ result = NoResult
  /\ ret = NoRet

\* a hook that sources or transforms nodes runs outside createPages; it
\* starts a new build, whose createPages has not run yet
SourceNodes ==
  /\ pc # "awaitGraphql"
  /\ LET r == sourceNodes(nodes)
     IN /\ nodes' = r.nodes
        /\ calls' = r.calls
  /\ handler' = [name |-> "sourceNodes"]
  /\ pc' = "idle"
  /\ result' = NoResult
  /\ ret' = NoRet

\* the framework stores a node and calls onCreateNode with it
OnCreateNode ==
  /\ pc # "awaitGraphql"
  /\ \E node \in NodeEvents(nodes) :
       LET r == onCreateNode(createNode(nodes, node), node)
       IN /\ nodes' = r.nodes
          /\ calls' = r.calls
          /\ handler' = [name |-> "onCreateNode", node |-> node]
  /\ pc' = "idle"
  /\ result' = NoResult
  /\ ret' = NoRet

CreatePagesBegin ==
  /\ pc \in {"idle", "done"}
  /\ calls' = createPagesBegin
  /\ handler' = [name |-> "createPages"]
  /\ pc' = "awaitGraphql"
  /\ result' = NoResult
  /\ ret' = NoRet
  /\ UNCHANGED nodes

CreatePagesResume ==
  /\ pc = "awaitGraphql"
  /\ \E res \in GraphqlResults(nodes) :
       /\ result' = res
       /\ calls' = calls \o createPagesResume(res)
  /\ pc' = "done"
  /\ UNCHANGED <<nodes, handler, ret>>

\* a query resolves the slug field of a story page
ResolveSlug ==
  /\ pc = "idle"
  /\ \E source \in StoryNodes(nodes) :
       /\ handler' = [name |-> "slugify", source |-> source]
       /\ ret' = slugify(source)
  /\ calls' = <<>>
  /\ UNCHANGED <<nodes, pc, result>>

\* a query resolves excerpt, body or timeToRead of a story page
ResolvePassthrough ==
  /\ pc = "idle"
  /\ \E source \in StoryNodes(nodes), fieldName \in PassthroughFields :
       \E args \in FieldArgs(fieldName) :
         LET r == mdxResolverPassthrough(fieldName, nodes, source, args)
         IN /\ handler' = [name |-> "mdxpassthrough", fieldName |-> fieldName,
                           source |-> source, args |-> args]
            /\ calls' = r.calls
            /\ ret' = r.ret
  /\ UNCHANGED <<nodes, pc, result>>

Next ==
  \/ SourceNodes
  \/ OnCreateNode
  \/ CreatePagesBegin
  \/ CreatePagesResume
  \/ ResolveSlug
  \/ ResolvePassthrough

Spec == Init /\ [][Next]_vars

----------------------------------------------------------------------------
(* The slugify resolver on its own, applied to any source object *)

SourceInputs ==
  [slug : StringsUpTo(SlugChars, MaxSlugLen) \cup {Undefined},
   title : StringsUpTo(TitleChars, MaxTitleLen) \cup {Undefined}]

\* a query hands a source object to the resolver
InitSlugify ==
  /\ nodes = <<>>
  /\ pc = "idle"
  /\ handler \in {[name |-> "query", source |-> source] : source \in SourceInputs}
  /\ calls = <<>>
  /\ result = NoResult
  /\ ret = NoRet

SlugifyAny ==
  /\ handler.name = "query"
  /\ handler' = [name |-> "slugify", source |-> handler.source]
  /\ ret' = slugify(handler.source)
  /\ UNCHANGED <<nodes, pc, calls, result>>

\* createPages in a build whose query returns the resolved slug as its one node
CreatePageOfSlug ==
  /\ handler.name = "slugify"
  /\ LET res == [errors |-> Undefined,
                 data |-> [allStoryPage |-> [nodes |-> <<[slug |-> ret]>>]]]
     IN /\ result' = res
        /\ calls' = createPagesBegin \o createPagesResume(res)
  /\ handler' = [name |-> "createPages"]
  /\ pc' = "done"
  /\ UNCHANGED <<nodes, ret>>

NextSlugify == SlugifyAny \/ CreatePageOfSlug

SpecSlugify == InitSlugify /\ [][NextSlugify]_vars

----------------------------------------------------------------------------
(* Properties of createPages *)

IsCreatePage(c, template) == c.api = "createPage" /\ c.component = template

\* the createPage calls of the run that use the story-page template, in
\* call order
StoryCalls == SelectSeq(calls, LAMBDA c : IsCreatePage(c, storyPageTemplate))

Count(seq, Test(_)) == Cardinality({i \in 1..Len(seq) : Test(seq[i])})

RunDone == handler.name = "createPages" /\ pc = "done"

C2_DistinctPaths ==
  RunDone =>
    \A i, j \in 1..Len(calls) :
      (i # j /\ calls[i].api = "createPage" /\ calls[j].api = "createPage")
        => calls[i].path # calls[j].path

\* C3: when the query result carries errors, createPages calls
\* reporter.panicOnBuild exactly once, with the errors, then returns, and no
\* story page is created in that run.
C3_ErrorsPanic ==
  (RunDone /\ result.errors # Undefined) =>
    /\ Count(calls, LAMBDA c : c.api = "panicOnBuild") = 1
    /\ calls[Len(calls)].api = "panicOnBuild"
    /\ calls[Len(calls)].errors = result.errors
    /\ StoryCalls = <<>>

C3_Witness ==
  /\ RunDone /\ result.errors # Undefined
  /\ result.data.allStoryPage.nodes # <<>>
  /\ calls[Len(calls)].api = "panicOnBuild"

\* C9: every run of createPages creates the stories index page exactly once,
\* with path '/stories', the stories-page template and breadcrumbs
\* ['stories'], before the query is issued; so also in a run that ends in
\* panicOnBuild.
C9_IndexPageFirst ==
  handler.name = "createPages" =>
    /\ Count(calls, LAMBDA c : IsCreatePage(c, storiesPageTemplate)) = 1
    /\ \E i \in 1..Len(calls) :
         /\ IsCreatePage(calls[i], storiesPageTemplate)
         /\ calls[i].path = <<"/", "s", "t", "o", "r", "i", "e", "s">>
         /\ calls[i].context.breadcrumbs = <<Str_stories>>
         /\ \A j \in 1..Len(calls) : calls[j].api = "graphql" => i < j
    /\ Count(calls, LAMBDA c : c.api = "graphql") = 1

C9_Witness ==
  /\ RunDone /\ result.errors # Undefined
  /\ calls[Len(calls)].api = "panicOnBuild"
  /\ IsCreatePage(calls[1], storiesPageTemplate)

\* C10: the story pages are created in the order of the nodes of the query
\* result, the k-th story page from the k-th node, and all of them after the
\* index page.
C10_PagesInResultOrder ==
  (RunDone /\ result.errors = Undefined) =>
    LET ns == result.data.allStoryPage.nodes
    IN /\ \A k \in 1..Len(ns) :
            k <= Len(StoryCalls) /\ StoryCalls[k].context.slug = ns[k].slug
       /\ \A i, j \in 1..Len(calls) :
            (IsCreatePage(calls[i], storiesPageTemplate)
               /\ IsCreatePage(calls[j], storyPageTemplate)) => i < j

C10_Witness ==
  /\ RunDone /\ result.errors = Undefined
  /\ Len(StoryCalls) = 2
  /\ StoryCalls[1].context.slug # StoryCalls[2].context.slug
  /\ StoryCalls[1].context.slug = result.data.allStoryPage.nodes[1].slug

----------------------------------------------------------------------------
(* Properties of onCreateNode *)

\* an Mdx node whose parent file node was sourced from the stories folder
IsStoryDocument(store, node) ==
  /\ node.internal.type = "Mdx"
  /\ getNode(store, node.parent).sourceInstanceName = "stories"

CallsOf(seq, api) == {i \in 1..Len(seq) : seq[i].api = api}

\* C4: for an Mdx node whose parent file node has sourceInstanceName
\* 'stories', onCreateNode calls createNode exactly once, with a node of type
\* MdxStoryPage whose parent is the Mdx node's id, whose children are empty
\* and whose title, releaseDate, banner and description are those of the
\* frontmatter; after it, it calls createParentChildLink once, with the Mdx
\* node as parent and the node just created, read from the store, as child.
C4_StoryNodeCreated ==
  (handler.name = "onCreateNode" /\ IsStoryDocument(nodes, handler.node)) =>
    LET mdx == handler.node
        fm == mdx.frontmatter
    IN /\ Cardinality(CallsOf(calls, "createNode")) = 1
       /\ Cardinality(CallsOf(calls, "createParentChildLink")) = 1
       /\ \E i \in CallsOf(calls, "createNode") :
          \E j \in CallsOf(calls, "createParentChildLink") :
            LET n == calls[i].node
            IN /\ i < j
               /\ n.internal.type = "MdxStoryPage"
               /\ n.parent = mdx.id
               /\ n.children = <<>>
               /\ n.title = fm.title
               /\ n.releaseDate = fm.releaseDate
               /\ n.banner = fm.banner
               /\ n.description = fm.description
               /\ calls[j].parent.id = mdx.id
               /\ calls[j].child # UndefinedNode
               /\ calls[j].child = n
               /\ getNode(nodes, n.id) = n
               /\ \E k \in 1..Len(nodes[mdx.id].children) :
                    nodes[mdx.id].children[k] = n.id

C4_Witness ==
  /\ handler.name = "onCreateNode"
  /\ IsStoryDocument(nodes, handler.node)
  /\ handler.node.frontmatter.banner # handler.node.frontmatter.description
  /\ Cardinality(StoryNodes(nodes)) = 2
  /\ Cardinality(CallsOf(calls, "createParentChildLink")) = 1

\* C5: onCreateNode changes nothing for a node that is not a story document:
\* for a node that is not of type Mdx it calls no framework function at all,
\* for an Mdx node whose parent file is not from 'stories' it calls neither
\* createNode nor createParentChildLink, and in both cases the set of
\* MdxStoryPage nodes stays as it was.
C5_NonStoryNodeIgnored ==
  [][ (handler'.name = "onCreateNode"
         /\ ~IsStoryDocument(nodes', handler'.node)) =>
        /\ StoryNodes(nodes') = StoryNodes(nodes)
        /\ CallsOf(calls', "createNode") = {}
        /\ CallsOf(calls', "createParentChildLink") = {}
        /\ (handler'.node.internal.type # "Mdx" => calls' = <<>>) ]_vars

C5_Witness ==
  /\ handler.name = "onCreateNode"
  /\ handler.node.internal.type = "Mdx"
  /\ ~IsStoryDocument(nodes, handler.node)
  /\ calls = <<[api |-> "getNode", id |-> handler.node.parent]>>
  /\ StoryNodes(nodes) # {}

----------------------------------------------------------------------------
(* Properties of the field extensions *)

NoDoubleSlash(s) == \A i \in 1..(Len(s) - 1) : ~(s[i] = "/" /\ s[i + 1] = "/")

\* C6: for every source object, with or without slug and with or without
\* title, the slugify resolver returns a non-empty string that starts with
\* '/' and has no two consecutive '/'.
C6_SlugShape ==
  handler.name = "slugify" =>
    /\ ret # Undefined
    /\ Len(ret) >= 1
    /\ ret[1] = "/"
    /\ NoDoubleSlash(ret)

C6_Witness ==
  /\ handler.name = "slugify"
  /\ handler.source.slug = <<"a", "/", "/">>
  /\ handler.source.title = Undefined
  /\ ret = <<"/", "a", "/">>

\* C7: the slug of a story page made by onCreateNode is '/' followed by
\* kebabCase(title) when the document's frontmatter has no slug or an empty
\* one, and otherwise the frontmatter slug prefixed with '/' with runs of
\* '/' collapsed, whatever the title.
C7_SlugOrTitle ==
  (handler.name = "slugify" /\ handler.source.parent \in DOMAIN nodes) =>
    LET fm == nodes[handler.source.parent].frontmatter
    IN ret = IF fm.slug = Undefined \/ fm.slug = <<>>
             THEN <<"/">> \o kebabCase(fm.title)
             ELSE CollapseSlashes(<<"/">> \o fm.slug)

C7_Witness ==
  /\ handler.name = "slugify"
  /\ handler.source.parent \in DOMAIN nodes
  /\ nodes[handler.source.parent].frontmatter.slug = <<>>
  /\ handler.source.slug = Undefined
  /\ ret = <<"/", "a">>

\* C8: resolving excerpt, body or timeToRead on an MdxStoryPage node applies
\* the Mdx type's resolver of that field to the node's parent with the same
\* arguments and returns its result; the parent is the Mdx node the story
\* page was created from.
C8_Passthrough ==
  handler.name = "mdxpassthrough" =>
    LET source == handler.source
        mdx == getNode(nodes, source.parent)
    IN /\ mdx.internal.type = "Mdx"
       /\ source.id = createNodeId(mdx.id \o " >>> MdxStoryPage")
       /\ source.title = mdx.frontmatter.title
       /\ \E k \in 1..Len(mdx.children) : mdx.children[k] = source.id
       /\ Cardinality(CallsOf(calls, "resolve")) = 1
       /\ \A i \in CallsOf(calls, "resolve") :
            /\ calls[i].fieldName = handler.fieldName
            /\ calls[i].node = mdx
            /\ calls[i].args = handler.args
       /\ ret = MdxResolve(handler.fieldName, mdx, handler.args)

C8_Witness ==
  /\ handler.name = "mdxpassthrough"
  /\ handler.fieldName = "excerpt"
  /\ handler.args = {<<"pruneLength", 2>>}
  /\ ret.of = handler.source.parent
  /\ ret.args = handler.args

----------------------------------------------------------------------------
(* Properties of the story pages made from resolved slugs *)

\* array.join('/')
RECURSIVE JoinSlash(_)
JoinSlash(a) ==
  IF a = <<>> THEN <<>>
  ELSE IF Len(a) = 1 THEN a[1]
  ELSE a[1] \o <<"/">> \o JoinSlash(Tail(a))

\* s without any trailing '/'
RECURSIVE StripTrailingSlashes(_)
StripTrailingSlashes(s) ==
  IF s # <<>> /\ s[Len(s)] = "/"
  THEN StripTrailingSlashes(SubSeq(s, 1, Len(s) - 1))
  ELSE s

\* C11: the path of a story page created from a slug that the slugify
\* resolver produced equals its context.slug: the second replace in
\* createPages changes nothing.
C11_PathIsSlug ==
  (RunDone /\ result.errors = Undefined) =>
    \A c \in Range(StoryCalls) : c.path = c.context.slug

C11_Witness ==
  /\ RunDone /\ result.errors = Undefined
  /\ Len(StoryCalls) = 1
  /\ StoryCalls[1].context.slug = <<"/", "a", "/", "a">>
  /\ StoryCalls[1].path = <<"/", "a", "/", "a">>

\* C12 as claimed: no breadcrumb is empty, the slug '/' gives no breadcrumbs,
\* and '/' followed by the breadcrumbs joined with '/' is the page path
\* without any trailing '/'.
C12_BreadcrumbsAsClaimed ==
  (RunDone /\ result.errors = Undefined) =>
    \A c \in Range(StoryCalls) :
      LET b == c.context.breadcrumbs
      IN /\ \A i \in 1..Len(b) : b[i] # <<>>
         /\ (c.context.slug = <<"/">> => b = <<>>)
         /\ <<"/">> \o JoinSlash(b) = StripTrailingSlashes(c.path)

\* C12, amended: no breadcrumb is empty or contains '/', the slug '/' gives
\* no breadcrumbs, and '/' followed by the breadcrumbs joined with '/' is the
\* page path without its trailing '/' when the path is longer than '/', and
\* '/' when the path is '/'.
C12_Breadcrumbs ==
  (RunDone /\ result.errors = Undefined) =>
    \A c \in Range(StoryCalls) :
      LET b == c.context.breadcrumbs
      IN /\ \A i \in 1..Len(b) :
              b[i] # <<>> /\ \A k \in 1..Len(b[i]) : b[i][k] # "/"
         /\ (c.context.slug = <<"/">> => b = <<>>)
         /\ <<"/">> \o JoinSlash(b) =
              IF c.path = <<"/">> THEN <<"/">>
              ELSE StripTrailingSlashes(c.path)

C12_Witness ==
  /\ RunDone /\ result.errors = Undefined
  /\ Len(StoryCalls) = 1
  /\ StoryCalls[1].context.slug = <<"/", "a", "/">>
  /\ StoryCalls[1].context.breadcrumbs = << <<"a">> >>

----------------------------------------------------------------------------
(* Properties of the node ids *)

StoryIds(store) == {n.id : n \in StoryNodes(store)}

\* C13: the id of an MdxStoryPage node is createNodeId of
\* '<mdx id> >>> MdxStoryPage', a function of the Mdx node's id only: however
\* often onCreateNode has run for an Mdx node, edited or not, the store holds
\* at most one MdxStoryPage per Mdx node, and two MdxStoryPage nodes of
\* different Mdx nodes have different ids; the node a run creates has the
\* id of the node an earlier run for the same Mdx node created.
C13_OneStoryPagePerMdx ==
  /\ \A n \in StoryNodes(nodes) :
       n.id = createNodeId(n.parent \o " >>> MdxStoryPage")
  /\ \A n1, n2 \in StoryNodes(nodes) :
       /\ n1.parent = n2.parent => n1 = n2
       /\ n1.parent # n2.parent => n1.id # n2.id
  /\ (handler.name = "onCreateNode" /\ IsStoryDocument(nodes, handler.node)) =>
       /\ \A i \in CallsOf(calls, "createNode") :
            calls[i].node.id
              = createNodeId(handler.node.id \o " >>> MdxStoryPage")
       /\ \A k \in 1..Len(handler.node.children) :
            \E i \in CallsOf(calls, "createNode") :
              calls[i].node.id = handler.node.children[k]
       /\ Cardinality({n \in StoryNodes(nodes) : n.parent = handler.node.id}) = 1

C13_Witness ==
  /\ handler.name = "onCreateNode"
  /\ IsStoryDocument(nodes, handler.node)
  /\ handler.node.children
       = <<createNodeId(handler.node.id \o " >>> MdxStoryPage")>>
  /\ Cardinality(StoryNodes(nodes)) = 2
  /\ Cardinality(CallsOf(calls, "createNode")) = 1


ConfigNodes(store) ==
  {n \in Range(store) : n.internal.type = "MinimalBlogConfig"}

\* C14: sourceNodes creates exactly one node: of type MinimalBlogConfig, with
\* id 'site >>> config', parent null, storiesPath '/stories' and empty
\* externalLinks and navigation; however often sourceNodes has run the store
\* holds one config node, and its storiesPath is the path of the stories
\* index page that createPages creates.
C14_OneConfigNode ==
  /\ Cardinality(ConfigNodes(nodes)) <= 1
  /\ handler.name = "sourceNodes" =>
       /\ Len(calls) = 1
       /\ calls[1].api = "createNode"
       /\ calls[1].node.internal.type = "MinimalBlogConfig"
       /\ calls[1].node.id = "site >>> config"
       /\ calls[1].node.parent = Null
       /\ calls[1].node.children = <<>>
       /\ calls[1].node.storiesPath = <<"/", "s", "t", "o", "r", "i", "e", "s">>
       /\ calls[1].node.externalLinks = <<>>
       /\ calls[1].node.navigation = <<>>
       /\ ConfigNodes(nodes) = {calls[1].node}
  /\ handler.name = "createPages" =>
       \A n \in ConfigNodes(nodes) :
         \A i \in 1..Len(calls) :
           IsCreatePage(calls[i], storiesPageTemplate)
             => calls[i].path = n.storiesPath

C14_Witness ==
  /\ handler.name = "sourceNodes"
  /\ Cardinality(ConfigNodes(nodes)) = 1
  /\ StoryNodes(nodes) # {}
  /\ calls[1].node.id = "site >>> config"

----------------------------------------------------------------------------
(* index.js of the Verify-PR-labels action *)

\* the names index.js binds at module level: the two require()d modules and
\* getPullRequestNumber
ModuleScope == {"core", "github", "getPullRequestNumber"}

ActionsBot == "github-actions[bot]"
ReviewUsers == {ActionsBot, "octocat"}
ReviewStates == {"CHANGES_REQUESTED", "DISMISSED", "APPROVED", "COMMENTED"}
LabelNames == <<"bug", "docs", "feature">>

\* what octokit.pulls.listReviews returns: the reviews of the pull request in
\* the order they were made, the id of a review being its position
ReviewLists ==
  UNION {{[i \in 1..n |-> [id |-> i, user |-> [login |-> f[i][1]],
                           state |-> f[i][2]]] :
            f \in [1..n -> ReviewUsers \X ReviewStates]} : n \in 0..MaxReviews}

\* what getPrLabels returns: the names of the labels of the pull request
LabelLists == {SubSeq(LabelNames, 1, n) : n \in 0..MaxLabels}

\* the value of "length > 0 && array[length - 1]" for an empty array
False == [id |-> 0, user |-> [login |-> "false"], state |-> "false"]

\* the body of the try block from "const prLabels" on, given what the two
\* requests return: the octokit and core calls that follow them
verifyLabels(prLabels, reviews) ==
  LET allReviewsFromActionsBot ==
        SelectSeq(reviews, LAMBDA review : review.user.login = ActionsBot)
      lastReviewFromActionsBot ==
        IF Len(allReviewsFromActionsBot) > 0
        THEN allReviewsFromActionsBot[Len(allReviewsFromActionsBot)]
        ELSE False
  IN IF Len(prLabels) > 0
     THEN << [api |-> "core.info",
              message |-> "Pull Request has at least a label. All good!"] >>
          \o (IF lastReviewFromActionsBot # False
                 /\ lastReviewFromActionsBot.state # "DISMISSED"
              THEN << [api |-> "pulls.dismissReview",
                       review_id |-> lastReviewFromActionsBot.id,
                       message |-> "All good!"] >>
              ELSE <<>>)
     ELSE IF lastReviewFromActionsBot # False
               /\ lastReviewFromActionsBot.state = "CHANGES_REQUESTED"
     THEN << [api |-> "core.info",
              message |-> "Skipping REQUEST_CHANGES review"] >>
     ELSE << [api |-> "pulls.createReview", event |-> "REQUEST_CHANGES"] >>

\* the async function of index.js: an exception thrown in the try block ends
\* it and is handed to core.setFailed
indexJs(token, prLabels, reviews) ==
  IF token = Undefined
  THEN << [api |-> "core.getInput", name |-> "github-token"],
          [api |-> "core.setFailed",
           message |-> "Error: Input required and not supplied: github-token"] >>
  ELSE IF "GitHub" \notin ModuleScope
  THEN << [api |-> "core.getInput", name |-> "github-token"],
          [api |-> "core.setFailed",
           message |-> "ReferenceError: GitHub is not defined"] >>
  ELSE << [api |-> "core.getInput", name |-> "github-token"],
          [api |-> "pulls.get"], [api |-> "pulls.listReviews"] >>
       \o verifyLabels(prLabels, reviews)

\* a workflow run: the token input, and the pull request's labels and reviews
InitLabels ==
  /\ nodes = <<>>
  /\ pc = "idle"
  /\ handler \in {[name |-> "workflow", token |-> t, labels |-> l, reviews |-> r] :
                    t \in {Undefined, <<"t">>}, l \in LabelLists,
                    r \in ReviewLists}
  /\ calls = <<>>
  /\ result = NoResult
  /\ ret = NoRet

RunIndexJs ==
  /\ handler.name = "workflow"
  /\ handler' = [handler EXCEPT !.name = "index.js"]
  /\ calls' = indexJs(handler.token, handler.labels, handler.reviews)
  /\ UNCHANGED <<nodes, pc, result, ret>>

NextLabels == RunIndexJs

SpecLabels == InitLabels /\ [][NextLabels]_vars

----------------------------------------------------------------------------
(* Properties of the Verify-PR-labels action *)

BotReviews(reviews) == {i \in 1..Len(reviews) : reviews[i].user.login = ActionsBot}

\* the position of the last review by the bot, 0 when there is none
LastBotReview(reviews) ==
  IF BotReviews(reviews) = {} THEN 0
  ELSE CHOOSE i \in BotReviews(reviews) : \A j \in BotReviews(reviews) : j <= i

RanWithToken == handler.name = "index.js" /\ handler.token # Undefined

\* C15: in a run on a pull request without labels, if the last review by
\* 'github-actions[bot]' is absent or not CHANGES_REQUESTED the run creates
\* exactly one review, with event REQUEST_CHANGES, and dismisses nothing; if
\* it is CHANGES_REQUESTED the run creates no review and dismisses nothing.
C15_NoLabelRequestsChanges ==
  (RanWithToken /\ handler.labels = <<>>) =>
    LET last == LastBotReview(handler.reviews)
    IN /\ CallsOf(calls, "pulls.dismissReview") = {}
       /\ IF last # 0 /\ handler.reviews[last].state = "CHANGES_REQUESTED"
          THEN CallsOf(calls, "pulls.createReview") = {}
          ELSE /\ Cardinality(CallsOf(calls, "pulls.createReview")) = 1
               /\ \A i \in CallsOf(calls, "pulls.createReview") :
                    calls[i].event = "REQUEST_CHANGES"

\* C16: a run on a pull request with at least one label never creates a
\* review; if there is no review by 'github-actions[bot]' or the last one is
\* DISMISSED it dismisses nothing, and otherwise it dismisses exactly the
\* last review by the bot.
C16_LabelDismissesLastReview ==
  (RanWithToken /\ handler.labels # <<>>) =>
    LET last == LastBotReview(handler.reviews)
    IN /\ CallsOf(calls, "pulls.createReview") = {}
       /\ IF last = 0 \/ handler.reviews[last].state = "DISMISSED"
          THEN CallsOf(calls, "pulls.dismissReview") = {}
          ELSE /\ Cardinality(CallsOf(calls, "pulls.dismissReview")) = 1
               /\ \A i \in CallsOf(calls, "pulls.dismissReview") :
                    calls[i].review_id = handler.reviews[last].id

====
